---------------------------- MODULE Spec2Model ----------------------------
(***************************************************************************)
(* Model of the metrics aggregation and sustained-peak sizing engine of    *)
(* services/cloudwatch_service.py (CloudWatchService) with config.py.      *)
(*                                                                         *)
(* Numbers.  Utilization samples are whole percents.  Every derived        *)
(* utilization value (mean, percentile, peak, spike gap) is kept in        *)
(* hundredths of a percent, which is what round(x, 2) leaves; durations    *)
(* are kept in tenths of a minute, which is what round(x, 1) leaves.       *)
(* The arithmetic is exact rational arithmetic: the binary floating point  *)
(* error of numpy is not modelled, except that a mean which falls exactly  *)
(* on a half hundredth in _aggregate_values (where the operands are        *)
(* themselves decimal fractions without an exact binary form) may round    *)
(* either way.                                                             *)
(*                                                                         *)
(* A Python None, a missing dictionary key and a missing module attribute  *)
(* are the empty sequence << >>; a present value v is <<v>>.               *)
(***************************************************************************)
EXTENDS Integers, Sequences, FiniteSets, TLC

VARIABLES
    cfg,                    \* the attributes of the config module
    pc,                     \* position of the running call
    datapoints,             \* argument of _process_metric_datapoints
    instance_metrics,       \* argument of _aggregate_values
    ret,                    \* outcome of the call: returned value or raised error
    instance_ids,           \* argument of get_aggregated_metrics_for_instances
    responses,              \* what the metrics provider answered, per instance
    cpu_metrics,            \* get_instance_metrics: cpu summary of the instance in hand
    per_instance_metrics,   \* get_aggregated_metrics_for_instances locals
    all_cpu_metrics,
    all_memory_metrics,
    instances_with_metrics,
    cluster_type,           \* arguments of calculate_lookback_time
    cluster_created_time,
    now,                    \* the clock read by calculate_lookback_time
    cluster_name,           \* arguments of _classify_cluster
    runtime_hours

vars == <<cfg, pc, datapoints, instance_metrics, ret, instance_ids, responses,
          cpu_metrics, per_instance_metrics, all_cpu_metrics, all_memory_metrics,
          instances_with_metrics, cluster_type, cluster_created_time, now,
          cluster_name, runtime_hours>>

-----------------------------------------------------------------------------
(* Bounds of the model *)

\* longest datapoint list handed to _process_metric_datapoints
MaxLen == 3

\* longest instance id list handed to get_aggregated_metrics_for_instances
MaxInstances == 2

\* longest summary list handed directly to _aggregate_values
MaxSummaries == 2

\* latest hour on the clock of the lookback calculation
MaxTime == 80

\* longest cluster name (in symbols) handed to _classify_cluster
MaxNameLen == 5

\* utilization samples (whole percents) the provider may report
Vals == {10, 80, 90, 100}

-----------------------------------------------------------------------------
(* Optional values *)

None == << >>

Some(v) == <<v>>

IsNone(o) == o = << >>

Val(o) == o[1]

-----------------------------------------------------------------------------
(* Configuration *)

CLOUDWATCH_PERIOD_SECONDS == 300

MAX_LOOKBACK_DAYS == 3

TRANSIENT_LOOKBACK_HOURS == 4

LONG_RUNNING_THRESHOLD_HOURS == 7

\* config.py as the repository ships it: the three analysis attributes that
\* cloudwatch_service.py reads are not defined by it.
ShippedConfig ==
    [UTILIZATION_THRESHOLDS |-> None,
     SPIKE_DETECTION_GAP_PERCENT |-> None,
     SUSTAINED_PEAK_THRESHOLD_MINUTES |-> None]

\* configurations that define the three attributes
ConfigA ==
    [UTILIZATION_THRESHOLDS |-> Some({50, 70, 80, 90}),
     SPIKE_DETECTION_GAP_PERCENT |-> Some(10),
     SUSTAINED_PEAK_THRESHOLD_MINUTES |-> Some(10)]

ConfigB ==
    [UTILIZATION_THRESHOLDS |-> Some({50, 70, 80, 90}),
     SPIKE_DETECTION_GAP_PERCENT |-> Some(5),
     SUSTAINED_PEAK_THRESHOLD_MINUTES |-> Some(5)]

\* a threshold set without 80
ConfigNo80 ==
    [UTILIZATION_THRESHOLDS |-> Some({50, 70, 90}),
     SPIKE_DETECTION_GAP_PERCENT |-> Some(10),
     SUSTAINED_PEAK_THRESHOLD_MINUTES |-> Some(10)]

DefinedConfigs == {ConfigA, ConfigB, ConfigNo80}

Configs == {ShippedConfig} \cup DefinedConfigs

-----------------------------------------------------------------------------
(* Arithmetic helpers *)

Range(s) == {s[i] : i \in DOMAIN s}

RECURSIVE SumSeq(_)
SumSeq(s) == IF s = << >> THEN 0 ELSE Head(s) + SumSeq(Tail(s))

SetMax(S) == CHOOSE x \in S : \A y \in S : y <= x

SetMin(S) == CHOOSE x \in S : \A y \in S : x <= y

\* the list [m.get(key, 0) for m in s]: a missing value counted as 0
ExtractZero(s, key) ==
    [i \in DOMAIN s |-> IF IsNone(s[i][key]) THEN 0 ELSE Val(s[i][key])]

\* the list comprehension [m[key] for m in s if m[key] is present]
RECURSIVE Extract(_, _)
Extract(s, key) ==
    IF s = << >> THEN << >>
    ELSE IF ~IsNone(Head(s)[key])
         THEN <<Val(Head(s)[key])>> \o Extract(Tail(s), key)
         ELSE Extract(Tail(s), key)

\* sum(1 for v in s if v >= bound), with v and bound brought to a common scale
CountAtLeast(s, scale, bound) ==
    Cardinality({i \in DOMAIN s : s[i] * scale >= bound})

\* round(num / den) to the nearest integer, an exact half going to the even
\* neighbour (Python's round)
RoundHalfEven(num, den) ==
    LET q == num \div den
        r == num % den
    IN  IF 2 * r < den THEN q
        ELSE IF 2 * r > den THEN q + 1
        ELSE IF q % 2 = 0 THEN q ELSE q + 1

\* round(num / den) where an exact half goes up or down as `up` says
RoundTie(num, den, up) ==
    LET q == num \div den
        r == num % den
    IN  IF 2 * r < den THEN q
        ELSE IF 2 * r > den THEN q + 1
        ELSE IF up THEN q + 1 ELSE q

\* the k-th smallest element of s, k counted from 0
Kth(s, k) ==
    CHOOSE v \in Range(s) :
        /\ Cardinality({i \in DOMAIN s : s[i] < v}) <= k
        /\ k < Cardinality({i \in DOMAIN s : s[i] <= v})

\* 100 * np.percentile(s, q): linear interpolation between the two order
\* statistics around position (n - 1) * q / 100
Percentile100(s, q) ==
    LET n == Len(s)
        pos100 == (n - 1) * q
        lo == pos100 \div 100
        hi == IF lo + 1 <= n - 1 THEN lo + 1 ELSE n - 1
    IN  Kth(s, lo) * 100 + (Kth(s, hi) - Kth(s, lo)) * (pos100 - lo * 100)

-----------------------------------------------------------------------------
(* Outcomes of a call *)

Returned(v) == [kind |-> "returned", value |-> v]

Raised(e) == [kind |-> "raised", value |-> e]

NoCall == [kind |-> "none", value |-> << >>]

-----------------------------------------------------------------------------
(* CloudWatchService._empty_metrics *)

\* a "no data" summary that carries zeros in place of absent values
empty_metrics_zero ==
    [average |-> Some(0), p75 |-> Some(0), p90 |-> Some(0), p95 |-> Some(0),
     p99 |-> Some(0), max |-> Some(0), min |-> Some(0),
     datapoints |-> 0,
     available |-> FALSE,
     effective_peak |-> Some(0),
     effective_peak_percentile |-> "None",
     peak_type |-> "None",
     is_spike |-> FALSE,
     spike_gap |-> Some(0),
     duration_above |-> << >>,
     duration_at_p95_minutes |-> 0]

empty_metrics ==
    [average |-> None, p75 |-> None, p90 |-> None, p95 |-> None, p99 |-> None,
     max |-> None, min |-> None,
     datapoints |-> 0,
     available |-> FALSE,
     effective_peak |-> None,
     effective_peak_percentile |-> "None",
     peak_type |-> "None",
     is_spike |-> FALSE,
     spike_gap |-> None,
     duration_above |-> << >>,
     duration_at_p95_minutes |-> 0]

-----------------------------------------------------------------------------
(* CloudWatchService._process_metric_datapoints *)

\* duration_above[threshold] counting only the values above the threshold
DurationAboveStrict(averages, threshold) ==
    RoundHalfEven(CountAtLeast(averages, 1, threshold + 1) * CLOUDWATCH_PERIOD_SECONDS * 10, 60)

\* duration_above[threshold], in tenths of a minute
DurationAbove(averages, threshold) ==
    RoundHalfEven(CountAtLeast(averages, 1, threshold) * CLOUDWATCH_PERIOD_SECONDS * 10, 60)

\* the selection with the test on duration_above[80] made first
SelectPeakTypeModerateFirst(count_at_p95_level, is_spike, duration_above, sustained_threshold) ==
    IF (IF 80 \in DOMAIN duration_above THEN duration_above[80] ELSE 0)
           >= sustained_threshold * 10
    THEN "moderate"
    ELSE IF /\ count_at_p95_level * CLOUDWATCH_PERIOD_SECONDS >= sustained_threshold * 60
            /\ ~is_spike
         THEN "sustained"
         ELSE "momentary"

\* the selection with a missing duration_above[80] read as the sustained
\* threshold itself, not as 0
SelectPeakTypeDefaultReached(count_at_p95_level, is_spike, duration_above, sustained_threshold) ==
    IF /\ count_at_p95_level * CLOUDWATCH_PERIOD_SECONDS >= sustained_threshold * 60
       /\ ~is_spike
    THEN "sustained"
    ELSE IF (IF 80 \in DOMAIN duration_above THEN duration_above[80]
                                             ELSE sustained_threshold * 10)
                >= sustained_threshold * 10
         THEN "moderate"
         ELSE "momentary"

\* the selection with no regard to is_spike
SelectPeakTypeIgnoringSpike(count_at_p95_level, is_spike, duration_above, sustained_threshold) ==
    IF count_at_p95_level * CLOUDWATCH_PERIOD_SECONDS >= sustained_threshold * 60
    THEN "sustained"
    ELSE IF (IF 80 \in DOMAIN duration_above THEN duration_above[80] ELSE 0)
                >= sustained_threshold * 10
         THEN "moderate"
         ELSE "momentary"

\* the branch of the effective peak selection: "sustained", "moderate" or "momentary"
SelectPeakType(count_at_p95_level, is_spike, duration_above, sustained_threshold) ==
    IF /\ count_at_p95_level * CLOUDWATCH_PERIOD_SECONDS >= sustained_threshold * 60
       /\ ~is_spike
    THEN "sustained"
    ELSE IF (IF 80 \in DOMAIN duration_above THEN duration_above[80] ELSE 0)
                >= sustained_threshold * 10
         THEN "moderate"
         ELSE "momentary"

process_metric_datapoints(dps, c) ==
    IF dps = << >> THEN Returned(empty_metrics)
    ELSE
    LET averages == Extract(dps, "Average")
        maximums == Extract(dps, "Maximum")
        minimums == Extract(dps, "Minimum")
    IN
    IF averages = << >> THEN Returned(empty_metrics)
    ELSE IF \/ IsNone(c.UTILIZATION_THRESHOLDS)
            \/ IsNone(c.SPIKE_DETECTION_GAP_PERCENT)
            \/ IsNone(c.SUSTAINED_PEAK_THRESHOLD_MINUTES)
    THEN Raised("AttributeError")
    ELSE
    LET avg_value == RoundHalfEven(SumSeq(averages) * 100, Len(averages))
        max_value == IF maximums # << >> THEN SetMax(Range(maximums))
                                         ELSE SetMax(Range(averages))
        min_value == IF minimums # << >> THEN SetMin(Range(minimums))
                                         ELSE SetMin(Range(averages))
        p75_value == Percentile100(averages, 75)
        p90_value == Percentile100(averages, 90)
        p95_value == Percentile100(averages, 95)
        p99_value == Percentile100(averages, 99)
        duration_above == [t \in Val(c.UTILIZATION_THRESHOLDS) |->
                               DurationAbove(averages, t)]
        spike_gap == p95_value - p90_value
        is_spike == spike_gap > Val(c.SPIKE_DETECTION_GAP_PERCENT) * 100
        sustained_threshold == Val(c.SUSTAINED_PEAK_THRESHOLD_MINUTES)
        \* v >= p95_value * 0.95, both sides times 10000
        count_at_p95_level == CountAtLeast(averages, 10000, 95 * p95_value)
        peak_type == SelectPeakType(count_at_p95_level, is_spike, duration_above,
                                    sustained_threshold)
        effective_peak == CASE peak_type = "sustained" -> p95_value
                            [] peak_type = "moderate" -> p90_value
                            [] OTHER -> p75_value
        effective_peak_percentile == CASE peak_type = "sustained" -> "P95"
                                       [] peak_type = "moderate" -> "P90"
                                       [] OTHER -> "P75"
    IN  Returned(
        [average |-> Some(avg_value),
         p75 |-> Some(p75_value), p90 |-> Some(p90_value),
         p95 |-> Some(p95_value), p99 |-> Some(p99_value),
         max |-> Some(max_value * 100), min |-> Some(min_value * 100),
         datapoints |-> Len(averages),
         available |-> TRUE,
         effective_peak |-> Some(effective_peak),
         effective_peak_percentile |-> effective_peak_percentile,
         peak_type |-> peak_type,
         is_spike |-> is_spike,
         spike_gap |-> Some(spike_gap),
         duration_above |-> duration_above,
         duration_at_p95_minutes |->
             RoundHalfEven(count_at_p95_level * CLOUDWATCH_PERIOD_SECONDS * 10, 60)])

-----------------------------------------------------------------------------
(* Inputs of _process_metric_datapoints *)

\* What a datapoint may look like.  The provider reports Minimum <= Average <=
\* Maximum for one datapoint; any of the three statistics may be missing.
Datapoints ==
    { [Average |-> Some(v), Maximum |-> None, Minimum |-> None] : v \in Vals }
    \cup { [Average |-> Some(v),
            Maximum |-> Some(IF v + 5 > 100 THEN 100 ELSE v + 5),
            Minimum |-> Some(v - 5)] : v \in Vals }
    \cup { [Average |-> None, Maximum |-> Some(100), Minimum |-> Some(10)] }

SeqsUpTo(S, n) == UNION { [1..k -> S] : k \in 0..n }

-----------------------------------------------------------------------------
(* Specification of a direct call of _process_metric_datapoints *)

InitSummarize ==
    /\ cfg \in Configs
    /\ pc = "call"
    /\ datapoints \in SeqsUpTo(Datapoints, MaxLen)
    /\ ret = NoCall
    /\ instance_metrics = << >>
    /\ instance_ids = << >>
    /\ responses = << >>
    /\ cpu_metrics = empty_metrics
    /\ per_instance_metrics = << >>
    /\ all_cpu_metrics = << >>
    /\ all_memory_metrics = << >>
    /\ instances_with_metrics = 0
    /\ cluster_type = "TRANSIENT"
    /\ cluster_created_time = [t |-> 0, aware |-> TRUE]
    /\ now = 0
    /\ cluster_name = << >>
    /\ runtime_hours = 0

Summarize ==
    /\ pc = "call"
    /\ ret' = process_metric_datapoints(datapoints, cfg)
    /\ pc' = "done"
    /\ UNCHANGED <<cfg, datapoints, instance_metrics, instance_ids, responses,
                   cpu_metrics, per_instance_metrics, all_cpu_metrics,
                   all_memory_metrics, instances_with_metrics, cluster_type,
                   cluster_created_time, now,
                   cluster_name, runtime_hours>>

NextSummarize == Summarize

SpecSummarize == InitSummarize /\ [][NextSummarize]_vars

-----------------------------------------------------------------------------
(* CloudWatchService._aggregate_values *)

\* An unrounded float of _aggregate_values, kept as the exact fraction num / den
\* of a value in hundredths.
Frac(num, den) == [num |-> num, den |-> den]

\* float(np.mean(xs)) if xs else fallback
MeanOr(xs, fallback) ==
    IF xs # << >> THEN Frac(SumSeq(xs), Len(xs)) ELSE fallback

\* the aggregated p95 taken whatever the instances report
EffectivePeakAlwaysP95(effective_peaks, p95_value) == p95_value

\* the instances' effective peaks summed, not averaged
EffectivePeakSum(effective_peaks, p95_value) == Frac(SumSeq(effective_peaks), 1)

\* float(np.mean(effective_peaks) if effective_peaks else p95_value)
EffectivePeak(effective_peaks, p95_value) == MeanOr(effective_peaks, p95_value)

\* the peak type with 'moderate' looked for before 'momentary'
AggregatePeakTypeModerateFirst(peak_types) ==
    IF peak_types # << >>
    THEN IF "moderate" \in Range(peak_types) THEN "moderate"
         ELSE IF "momentary" \in Range(peak_types) THEN "momentary"
         ELSE "sustained"
    ELSE "sustained"

\* the worst case over the peak types the instances report
AggregatePeakType(peak_types) ==
    IF peak_types # << >>
    THEN IF "momentary" \in Range(peak_types) THEN "momentary"
         ELSE IF "moderate" \in Range(peak_types) THEN "moderate"
         ELSE "sustained"
    ELSE "sustained"

\* [m.get('peak_type') for m in instance_metrics if m.get('peak_type')]
RECURSIVE PeakTypes(_)
PeakTypes(ms) ==
    IF ms = << >> THEN << >>
    ELSE IF Head(ms).peak_type # "None"
         THEN <<Head(ms).peak_type>> \o PeakTypes(Tail(ms))
         ELSE PeakTypes(Tail(ms))

\* m.get('duration_above', {}).get(threshold, 0)
DurationOf(m, threshold) ==
    IF threshold \in DOMAIN m.duration_above THEN m.duration_above[threshold] ELSE 0

\* the largest of the per-instance max fields
AggregateMaxOfMaxes(ms) == SetMax(Range(Extract(ms, "max")))

\* max(averages) and min(averages) of lines 319-320: the extremes of the
\* per-instance averages
AggregateMax(ms) == SetMax(Range(Extract(ms, "average")))

AggregateMin(ms) == SetMin(Range(Extract(ms, "average")))

\* the raw samples behind the summaries, summed
AggregateSampleCountRaw(ms) == SumSeq([i \in DOMAIN ms |-> ms[i].datapoints])

\* 'datapoints': len(averages)
AggregateSampleCount(ms) == Len(Extract(ms, "average"))

\* `up` is the direction an exact half hundredth rounds to in this call
aggregate_values(ms, c, up) ==
    IF ms = << >> THEN Returned(empty_metrics)
    ELSE
    LET averages == Extract(ms, "average")
        p75_values == Extract(ms, "p75")
        p90_values == Extract(ms, "p90")
        p95_values == Extract(ms, "p95")
        p99_values == Extract(ms, "p99")
        effective_peaks == Extract(ms, "effective_peak")
    IN
    IF averages = << >> THEN Returned(empty_metrics)
    ELSE IF IsNone(c.UTILIZATION_THRESHOLDS) \/ IsNone(c.SPIKE_DETECTION_GAP_PERCENT)
    THEN Raised("AttributeError")
    ELSE
    LET avg_value == Frac(SumSeq(averages), Len(averages))
        p75_value == MeanOr(p75_values, Frac(Percentile100(averages, 75), 100))
        p90_value == MeanOr(p90_values, Frac(Percentile100(averages, 90), 100))
        p95_value == MeanOr(p95_values, Frac(Percentile100(averages, 95), 100))
        p99_value == MeanOr(p99_values, Frac(Percentile100(averages, 99), 100))
        effective_peak == EffectivePeak(effective_peaks, p95_value)
        duration_above ==
            [t \in Val(c.UTILIZATION_THRESHOLDS) |->
                RoundHalfEven(SumSeq([i \in DOMAIN ms |-> DurationOf(ms[i], t)]), Len(ms))]
        duration_at_p95_avg ==
            Frac(SumSeq([i \in DOMAIN ms |-> ms[i].duration_at_p95_minutes]), Len(ms))
        spike_gaps == Extract(ms, "spike_gap")
        avg_spike_gap == MeanOr(spike_gaps, Frac(0, 1))
        is_spike == avg_spike_gap.num >
                        Val(c.SPIKE_DETECTION_GAP_PERCENT) * 100 * avg_spike_gap.den
        peak_type == AggregatePeakType(PeakTypes(ms))
        effective_peak_percentile == CASE peak_type = "momentary" -> "P75"
                                       [] peak_type = "moderate" -> "P90"
                                       [] OTHER -> "P95"
        Round2(f) == RoundTie(f.num, f.den, up)
    IN  Returned(
        [average |-> Some(Round2(avg_value)),
         p75 |-> Some(Round2(p75_value)), p90 |-> Some(Round2(p90_value)),
         p95 |-> Some(Round2(p95_value)), p99 |-> Some(Round2(p99_value)),
         max |-> Some(AggregateMax(ms)), min |-> Some(AggregateMin(ms)),
         datapoints |-> AggregateSampleCount(ms),
         available |-> TRUE,
         effective_peak |-> Some(Round2(effective_peak)),
         effective_peak_percentile |-> effective_peak_percentile,
         peak_type |-> peak_type,
         is_spike |-> is_spike,
         spike_gap |-> Some(Round2(avg_spike_gap)),
         duration_above |-> duration_above,
         duration_at_p95_minutes |->
             RoundHalfEven(duration_at_p95_avg.num, duration_at_p95_avg.den)])

-----------------------------------------------------------------------------
(* Inputs of _aggregate_values and of the metrics provider *)

AvgOnly(v) == [Average |-> Some(v), Maximum |-> None, Minimum |-> None]

\* datapoint lists the provider answers with
SampleSeries ==
    { <<AvgOnly(90), AvgOnly(90)>>,
      <<AvgOnly(80), AvgOnly(80), AvgOnly(100)>>,
      <<AvgOnly(10), AvgOnly(10), AvgOnly(100)>> }

\* a summary of the earlier P95-only shape: no p75/p90/p99, no peak analysis
LegacySummary(avg, p95) ==
    [empty_metrics EXCEPT !.average = Some(avg), !.p95 = Some(p95),
                          !.max = Some(p95), !.min = Some(avg),
                          !.datapoints = 2, !.available = TRUE]

\* summaries a caller may hand to _aggregate_values
SummaryInputs ==
    {empty_metrics}
    \cup {LegacySummary(2000, 3001), LegacySummary(5000, 7000)}
    \cup {process_metric_datapoints(s, c).value : s \in SampleSeries, c \in DefinedConfigs}

-----------------------------------------------------------------------------
(* Specification of a direct call of _aggregate_values *)

InitAggregate ==
    /\ cfg \in Configs
    /\ pc = "call"
    /\ datapoints = << >>
    /\ ret = NoCall
    /\ instance_metrics \in SeqsUpTo(SummaryInputs, MaxSummaries)
    /\ instance_ids = << >>
    /\ responses = << >>
    /\ cpu_metrics = empty_metrics
    /\ per_instance_metrics = << >>
    /\ all_cpu_metrics = << >>
    /\ all_memory_metrics = << >>
    /\ instances_with_metrics = 0
    /\ cluster_type = "TRANSIENT"
    /\ cluster_created_time = [t |-> 0, aware |-> TRUE]
    /\ now = 0
    /\ cluster_name = << >>
    /\ runtime_hours = 0

AggregateValues ==
    /\ pc = "call"
    /\ \E up \in BOOLEAN : ret' = aggregate_values(instance_metrics, cfg, up)
    /\ pc' = "done"
    /\ UNCHANGED <<cfg, datapoints, instance_metrics, instance_ids, responses,
                   cpu_metrics, per_instance_metrics, all_cpu_metrics,
                   all_memory_metrics, instances_with_metrics, cluster_type,
                   cluster_created_time, now,
                   cluster_name, runtime_hours>>

NextAggregate == AggregateValues

SpecAggregate == InitAggregate /\ [][NextAggregate]_vars

-----------------------------------------------------------------------------
(* CloudWatchService.get_instance_metrics and its two fetches *)

\* what cloudwatch_client.get_metric_statistics does: it raises, or it
\* answers with a list of datapoints
Failure == [asked |-> TRUE, error |-> TRUE, Datapoints |-> << >>]

Answer(dps) == [asked |-> TRUE, error |-> FALSE, Datapoints |-> dps]

NotAsked == [asked |-> FALSE, error |-> FALSE, Datapoints |-> << >>]

ProviderResponses ==
    {Failure, Answer(<< >>),
     Answer(<<AvgOnly(90), AvgOnly(90)>>),
     Answer(<<AvgOnly(10), AvgOnly(10), AvgOnly(100)>>)}

\* the fetch without its except clause: the error reaches the caller
get_cpu_metrics_uncaught(response, c) ==
    IF response.error THEN Raised("ClientError")
    ELSE process_metric_datapoints(response.Datapoints, c)

\* try: ... return self._process_metric_datapoints(response['Datapoints'], 'Average')
\* except Exception: return self._empty_metrics()
get_cpu_metrics(response, c) ==
    IF response.error THEN Returned(empty_metrics)
    ELSE LET r == process_metric_datapoints(response.Datapoints, c)
         IN  IF r.kind = "raised" THEN Returned(empty_metrics) ELSE r

get_memory_metrics(response, c) ==
    IF response.error THEN Returned(empty_metrics)
    ELSE LET r == process_metric_datapoints(response.Datapoints, c)
         IN  IF r.kind = "raised" THEN Returned(empty_metrics) ELSE r

\* cpu_metrics['datapoints'] > 0 and memory_metrics['datapoints'] > 0
MetricsAvailableBoth(cpu, memory) == cpu.datapoints > 0 /\ memory.datapoints > 0

MetricsAvailable(cpu, memory) == cpu.datapoints > 0 \/ memory.datapoints > 0

\* the dictionary get_instance_metrics returns (the two ISO time stamps left out)
InstanceMetrics(instance_id, cpu, memory) ==
    [instance_id |-> instance_id,
     cpu |-> cpu,
     memory |-> memory,
     metrics_available |-> MetricsAvailable(cpu, memory)]

-----------------------------------------------------------------------------
(* CloudWatchService.get_aggregated_metrics_for_instances *)

\* the bookkeeping without the test of the summary's own availability
CollectUnfiltered(list, metrics_available, summary) ==
    IF metrics_available THEN Append(list, summary) ELSE list

\* lines 232-239: a summary joins the list to aggregate only if the instance
\* has metrics and the summary itself is available
Collect(list, metrics_available, summary) ==
    IF metrics_available /\ summary.available THEN Append(list, summary) ELSE list

\* instance id lists a caller may pass: the ids n, ..., 1
InstanceIdLists == { [i \in 1..n |-> n + 1 - i] : n \in 0..MaxInstances }

\* configurations a group run is started under
GroupConfigs == {ShippedConfig, ConfigA, ConfigB}

InitGroup ==
    /\ cfg \in GroupConfigs
    /\ pc = "call"
    /\ datapoints = << >>
    /\ instance_metrics = << >>
    /\ ret = NoCall
    /\ instance_ids \in InstanceIdLists
    /\ responses = << >>
    /\ cpu_metrics = empty_metrics
    /\ per_instance_metrics = << >>
    /\ all_cpu_metrics = << >>
    /\ all_memory_metrics = << >>
    /\ instances_with_metrics = 0
    /\ cluster_type = "TRANSIENT"
    /\ cluster_created_time = [t |-> 0, aware |-> TRUE]
    /\ now = 0
    /\ cluster_name = << >>
    /\ runtime_hours = 0

\* lines 214-226: the early return for no instances, or the start of the loop
CallGetAggregated ==
    /\ pc = "call"
    /\ IF instance_ids = << >>
       THEN /\ ret' = Returned([instance_count |-> 0,
                                instances_with_metrics |-> 0,
                                cpu |-> empty_metrics,
                                memory |-> empty_metrics,
                                per_instance |-> << >>])
            /\ pc' = "done"
       ELSE /\ ret' = ret
            /\ pc' = "cpu"
    /\ UNCHANGED <<cfg, datapoints, instance_metrics, instance_ids, responses,
                   cpu_metrics, per_instance_metrics, all_cpu_metrics,
                   all_memory_metrics, instances_with_metrics, cluster_type,
                   cluster_created_time, now,
                   cluster_name, runtime_hours>>

\* line 41: the cpu fetch of the instance in hand; an error the fetch lets
\* through ends the whole call
GetCpuMetrics ==
    /\ pc = "cpu"
    /\ \E response \in ProviderResponses :
          LET r == get_cpu_metrics(response, cfg)
          IN  /\ responses' = Append(responses, [cpu |-> response, memory |-> NotAsked])
              /\ IF r.kind = "raised"
                 THEN /\ ret' = r
                      /\ pc' = "done"
                      /\ cpu_metrics' = cpu_metrics
                 ELSE /\ ret' = ret
                      /\ pc' = "memory"
                      /\ cpu_metrics' = r.value
    /\ UNCHANGED <<cfg, datapoints, instance_metrics, instance_ids,
                   per_instance_metrics, all_cpu_metrics, all_memory_metrics,
                   instances_with_metrics, cluster_type, cluster_created_time, now,
                   cluster_name, runtime_hours>>

\* lines 42-51 and 230-239: the memory fetch, the instance's dictionary, and
\* the bookkeeping of the loop body
GetMemoryMetrics ==
    /\ pc = "memory"
    /\ \E response \in ProviderResponses :
          LET k == Len(per_instance_metrics) + 1
              r == get_memory_metrics(response, cfg)
              metrics == InstanceMetrics(instance_ids[k], cpu_metrics, r.value)
          IN  /\ responses' = [responses EXCEPT ![k].memory = response]
              /\ IF r.kind = "raised"
                 THEN /\ ret' = r
                      /\ pc' = "done"
                      /\ UNCHANGED <<per_instance_metrics, instances_with_metrics,
                                     all_cpu_metrics, all_memory_metrics>>
                 ELSE /\ ret' = ret
                      /\ per_instance_metrics' = Append(per_instance_metrics, metrics)
                      /\ instances_with_metrics' =
                             IF metrics.metrics_available THEN instances_with_metrics + 1
                                                          ELSE instances_with_metrics
                      /\ all_cpu_metrics' =
                             Collect(all_cpu_metrics, metrics.metrics_available,
                                     metrics.cpu)
                      /\ all_memory_metrics' =
                             Collect(all_memory_metrics, metrics.metrics_available,
                                     metrics.memory)
                      /\ pc' = IF k < Len(instance_ids) THEN "cpu" ELSE "aggregate"
    /\ cpu_metrics' = empty_metrics
    /\ UNCHANGED <<cfg, datapoints, instance_metrics, instance_ids,
                   cluster_type, cluster_created_time, now,
                   cluster_name, runtime_hours>>

\* lines 242-251: the two aggregations and the return
AggregateGroup ==
    /\ pc = "aggregate"
    /\ \E upc \in BOOLEAN, upm \in BOOLEAN :
          LET aggregated_cpu == aggregate_values(all_cpu_metrics, cfg, upc)
              aggregated_memory == aggregate_values(all_memory_metrics, cfg, upm)
          IN  ret' = IF aggregated_cpu.kind = "raised" THEN aggregated_cpu
                     ELSE IF aggregated_memory.kind = "raised" THEN aggregated_memory
                     ELSE Returned([instance_count |-> Len(instance_ids),
                                    instances_with_metrics |-> instances_with_metrics,
                                    cpu |-> aggregated_cpu.value,
                                    memory |-> aggregated_memory.value,
                                    per_instance |-> per_instance_metrics])
    /\ pc' = "done"
    /\ UNCHANGED <<cfg, datapoints, instance_metrics, instance_ids, responses,
                   cpu_metrics, per_instance_metrics, all_cpu_metrics,
                   all_memory_metrics, instances_with_metrics, cluster_type,
                   cluster_created_time, now,
                   cluster_name, runtime_hours>>

NextGroup ==
    \/ CallGetAggregated
    \/ GetCpuMetrics
    \/ GetMemoryMetrics
    \/ AggregateGroup

SpecGroup == InitGroup /\ [][NextGroup]_vars

-----------------------------------------------------------------------------
(* CloudWatchService.calculate_lookback_time *)

\* Instants are whole hours on one clock; a datetime is its hour and whether
\* it carries a time zone.
Times == 0..MaxTime

\* cluster_created_time.replace(tzinfo=timezone.utc) when it has no time zone
AsUtc(dt) == IF dt.aware THEN dt ELSE [dt EXCEPT !.aware = TRUE]

MaxLookback(type, clock) ==
    IF type = "TRANSIENT"
    THEN [t |-> clock - TRANSIENT_LOOKBACK_HOURS, aware |-> TRUE]
    ELSE [t |-> clock - MAX_LOOKBACK_DAYS * 24, aware |-> TRUE]

\* the earlier of the two datetimes
MinDatetime(a, b) ==
    IF a.aware # b.aware THEN Raised("TypeError")
    ELSE Returned(IF b.t < a.t THEN b ELSE a)

\* max(a, b) of two datetimes: a when b > a is false; comparing a datetime
\* that has a time zone with one that has none raises TypeError
MaxDatetime(a, b) ==
    IF a.aware # b.aware THEN Raised("TypeError")
    ELSE Returned(IF b.t > a.t THEN b ELSE a)

calculate_lookback_time(type, created, clock) ==
    MaxDatetime(AsUtc(created), MaxLookback(type, clock))

InitLookback ==
    /\ cfg \in {ShippedConfig}
    /\ pc = "call"
    /\ datapoints = << >>
    /\ instance_metrics = << >>
    /\ ret = NoCall
    /\ instance_ids = << >>
    /\ responses = << >>
    /\ cpu_metrics = empty_metrics
    /\ per_instance_metrics = << >>
    /\ all_cpu_metrics = << >>
    /\ all_memory_metrics = << >>
    /\ instances_with_metrics = 0
    /\ cluster_type \in {"TRANSIENT", "LONG_RUNNING"}
    /\ cluster_created_time \in [t : Times, aware : BOOLEAN]
    /\ now = 0
    /\ cluster_name = << >>
    /\ runtime_hours = 0

CalculateLookback ==
    /\ pc = "call"
    /\ \E clock \in Times :
          /\ now' = clock
          /\ ret' = calculate_lookback_time(cluster_type, cluster_created_time, clock)
    /\ pc' = "done"
    /\ UNCHANGED <<cfg, datapoints, instance_metrics, instance_ids, responses,
                   cpu_metrics, per_instance_metrics, all_cpu_metrics,
                   all_memory_metrics, instances_with_metrics, cluster_type,
                   cluster_created_time, cluster_name, runtime_hours>>

NextLookback == CalculateLookback

SpecLookback == InitLookback /\ [][NextLookback]_vars

-----------------------------------------------------------------------------
(* _classify_cluster *)

\* A cluster name is a sequence of symbols: the literal prefix "STRESS-", a
\* decimal digit, a hyphen, the letters S, X and L, and a line feed.
Digits == {"7"}

NameSymbols == {"STRESS-", "-", "S", "X", "L", "\n"} \cup Digits

ClusterNames == UNION { [1..n -> NameSymbols] : n \in 0..MaxNameLen }

\* runtimes in hundredths of an hour, as _calculate_runtime_hours rounds them
RuntimeHours == {0, 699, 700, 701}

\* what is left of s after the longest run of digits at its front (\d+ is
\* greedy, and no symbol after it in the pattern is a digit)
RECURSIVE SkipDigits(_)
SkipDigits(s) ==
    IF s # << >> /\ Head(s) \in Digits THEN SkipDigits(Tail(s)) ELSE s

\* what (?:S|L|XL)$ accepts: one of the three sizes at the end of the name,
\* where $ also matches just before a line feed that ends the name
SizeAtEnd(s) ==
    \/ s \in {<<"S">>, <<"L">>, <<"X", "L">>}
    \/ s \in {<<"S", "\n">>, <<"L", "\n">>, <<"X", "L", "\n">>}

\* re.compile(TRANSIENT_CLUSTER_PATTERN).match(name) finds a match
transient_pattern_match(name) ==
    /\ name # << >>
    /\ Head(name) = "STRESS-"
    /\ Tail(name) # << >>
    /\ Head(Tail(name)) \in Digits
    /\ LET rest == SkipDigits(Tail(name))
       IN  /\ rest # << >>
           /\ Head(rest) = "-"
           /\ SizeAtEnd(Tail(rest))

\* the runtime test taken with >= in place of >
classify_cluster_at_least(name, hours) ==
    IF transient_pattern_match(name) THEN "TRANSIENT"
    ELSE IF hours >= LONG_RUNNING_THRESHOLD_HOURS * 100 THEN "LONG_RUNNING"
    ELSE "TRANSIENT"

classify_cluster(name, hours) ==
    IF transient_pattern_match(name) THEN "TRANSIENT"
    ELSE IF hours > LONG_RUNNING_THRESHOLD_HOURS * 100 THEN "LONG_RUNNING"
    ELSE "TRANSIENT"

InitClassify ==
    /\ cfg \in {ShippedConfig}
    /\ pc = "call"
    /\ datapoints = << >>
    /\ instance_metrics = << >>
    /\ ret = NoCall
    /\ instance_ids = << >>
    /\ responses = << >>
    /\ cpu_metrics = empty_metrics
    /\ per_instance_metrics = << >>
    /\ all_cpu_metrics = << >>
    /\ all_memory_metrics = << >>
    /\ instances_with_metrics = 0
    /\ cluster_type = "TRANSIENT"
    /\ cluster_created_time = [t |-> 0, aware |-> TRUE]
    /\ now = 0
    /\ cluster_name \in ClusterNames
    /\ runtime_hours = 0

ClassifyCluster ==
    /\ pc = "call"
    /\ \E hours \in RuntimeHours :
          /\ runtime_hours' = hours
          /\ ret' = Returned(classify_cluster(cluster_name, hours))
    /\ pc' = "done"
    /\ UNCHANGED <<cfg, datapoints, instance_metrics, instance_ids, responses,
                   cpu_metrics, per_instance_metrics, all_cpu_metrics,
                   all_memory_metrics, instances_with_metrics, cluster_type,
                   cluster_created_time, now, cluster_name>>

NextClassify == ClassifyCluster

SpecClassify == InitClassify /\ [][NextClassify]_vars

-----------------------------------------------------------------------------
(* Properties *)

\* the call has ended by returning a value
HasReturned == pc = "done" /\ ret.kind = "returned"

\* the base series of the datapoints in hand is not empty
BaseSeriesNonEmpty == \E i \in DOMAIN datapoints : ~IsNone(datapoints[i].Average)

\* the configuration defines the three analysis attributes
AnalysisConfigured ==
    /\ ~IsNone(cfg.UTILIZATION_THRESHOLDS)
    /\ ~IsNone(cfg.SPIKE_DETECTION_GAP_PERCENT)
    /\ ~IsNone(cfg.SUSTAINED_PEAK_THRESHOLD_MINUTES)

\* the sustained threshold in tenths of a minute
SustainedTenths == Val(cfg.SUSTAINED_PEAK_THRESHOLD_MINUTES) * 10

\* the entry of a summary's duration_above for 80, an absent entry read as 0
DurationAbove80(m) == IF 80 \in DOMAIN m.duration_above THEN m.duration_above[80] ELSE 0

PeakTriple(m) == <<m.effective_peak, m.effective_peak_percentile, m.peak_type>>

SustainedCondition(m) == m.duration_at_p95_minutes >= SustainedTenths /\ ~m.is_spike

ModerateCondition(m) == DurationAbove80(m) >= SustainedTenths

\* C1: under a configuration that defines the analysis attributes, every
\* non-empty base series is summarized, and the summary's (effective_peak,
\* percentile, peak_type) is (p95, P95, sustained) iff duration_at_p95 reaches
\* the sustained threshold and is_spike is false; (p90, P90, moderate) iff that
\* fails and duration_above[80] reaches the threshold; (p75, P75, momentary)
\* otherwise.  Branch 1 wins when both conditions hold; exactly one fires.
C1_PeakSelection ==
    (pc = "done" /\ BaseSeriesNonEmpty /\ AnalysisConfigured) =>
        /\ ret.kind = "returned"
        /\ ret.value.available
        /\ LET m == ret.value
               b1 == PeakTriple(m) = <<m.p95, "P95", "sustained">>
               b2 == PeakTriple(m) = <<m.p90, "P90", "moderate">>
               b3 == PeakTriple(m) = <<m.p75, "P75", "momentary">>
           IN  /\ b1 <=> SustainedCondition(m)
               /\ b2 <=> (~SustainedCondition(m) /\ ModerateCondition(m))
               /\ b3 <=> (~SustainedCondition(m) /\ ~ModerateCondition(m))
               /\ Cardinality({b \in {1, 2, 3} :
                      \/ b = 1 /\ b1
                      \/ b = 2 /\ b2
                      \/ b = 3 /\ b3}) = 1

\* both conditions hold and the summary is the sustained one
C1_Witness ==
    /\ HasReturned
    /\ ret.value.available
    /\ SustainedCondition(ret.value)
    /\ ModerateCondition(ret.value)
    /\ ret.value.peak_type = "sustained"
    /\ ret.value.effective_peak = ret.value.p95

\* the peak types of the summaries handed to _aggregate_values
InputPeakTypes == {instance_metrics[i].peak_type : i \in DOMAIN instance_metrics}

SentinelConsistent(m) ==
    /\ (m.available = FALSE) <=> (m.datapoints = 0)
    /\ ~m.available =>
          /\ \A f \in {"average", "p75", "p90", "p95", "p99", "max", "min",
                       "effective_peak", "spike_gap"} : IsNone(m[f])
          /\ m.peak_type = "None"
          /\ m.effective_peak_percentile = "None"
          /\ m.duration_above = << >>

\* C3: every summary of a group run (a summarized fetch, a failed fetch, an
\* aggregate) has available = false iff its datapoints count is 0, and then all
\* its numeric fields, peak_type and effective_peak_percentile are absent and
\* duration_above is empty.
C3_SentinelConsistency ==
    /\ SentinelConsistent(cpu_metrics)
    /\ \A k \in DOMAIN per_instance_metrics :
          /\ SentinelConsistent(per_instance_metrics[k].cpu)
          /\ SentinelConsistent(per_instance_metrics[k].memory)
    /\ HasReturned =>
          /\ SentinelConsistent(ret.value.cpu)
          /\ SentinelConsistent(ret.value.memory)

\* a run with a failed fetch, an available instance summary and a sentinel aggregate
\* beside an available one
C3_Witness ==
    /\ HasReturned
    /\ \E k \in DOMAIN responses : responses[k].cpu.error
    /\ \E k \in DOMAIN per_instance_metrics : per_instance_metrics[k].memory.available
    /\ ~ret.value.cpu.available
    /\ ret.value.memory.available

\* the hours the classification allows to look back
MaxAllowedHours == IF cluster_type = "TRANSIENT" THEN TRANSIENT_LOOKBACK_HOURS
                                                 ELSE MAX_LOOKBACK_DAYS * 24

\* C4: calculate_lookback_time returns max(cluster_created_at, now - bound),
\* bound being TRANSIENT_LOOKBACK_HOURS or MAX_LOOKBACK_DAYS: never before the
\* creation time, never before now - bound, and the creation time itself when
\* the cluster is younger than the bound.
C4_LookbackBound ==
    pc = "done" =>
        /\ ret.kind = "returned"
        /\ ret.value.t >= cluster_created_time.t
        /\ ret.value.t >= now - MaxAllowedHours
        /\ ret.value.t \in {cluster_created_time.t, now - MaxAllowedHours}
        /\ cluster_created_time.t > now - MaxAllowedHours =>
               ret.value.t = cluster_created_time.t

\* a transient cluster created one hour ago: the window starts at its creation
C4_Witness ==
    /\ HasReturned
    /\ cluster_type = "TRANSIENT"
    /\ cluster_created_time.t = now - 1
    /\ ret.value.t = cluster_created_time.t

\* what one fetch contributes when nothing else interferes
ExpectedSummary(response) ==
    IF response.error THEN empty_metrics
    ELSE LET r == process_metric_datapoints(response.Datapoints, cfg)
         IN  IF r.kind = "raised" THEN empty_metrics ELSE r.value

\* C5: whatever fetches fail, the group run goes on: a failed fetch becomes the
\* sentinel of that instance and metric only, the sibling metric is still
\* fetched and summarized, every instance is processed and the call returns.
C5_FailureIsolation ==
    /\ pc # "done" => ENABLED NextGroup
    /\ \A k \in DOMAIN per_instance_metrics :
          /\ responses[k].cpu.asked /\ responses[k].memory.asked
          /\ per_instance_metrics[k].cpu = ExpectedSummary(responses[k].cpu)
          /\ per_instance_metrics[k].memory = ExpectedSummary(responses[k].memory)
          /\ responses[k].cpu.error => per_instance_metrics[k].cpu = empty_metrics
          /\ responses[k].memory.error => per_instance_metrics[k].memory = empty_metrics
    /\ pc = "done" =>
          /\ ret.kind = "returned"
          /\ Len(ret.value.per_instance) = Len(instance_ids)
          /\ Len(responses) = Len(instance_ids)

\* a run that returned although the first instance's cpu fetch failed, with the
\* memory of that instance and the cpu of the next one summarized
C5_Witness ==
    /\ HasReturned
    /\ Len(instance_ids) = 2
    /\ responses[1].cpu.error
    /\ ret.value.per_instance[1].memory.available
    /\ ret.value.per_instance[2].cpu.available
    /\ responses[2].memory.error

\* the available summaries of one metric, in instance order
RECURSIVE AvailableOf(_, _)
AvailableOf(per_instance, metric) ==
    IF per_instance = << >> THEN << >>
    ELSE IF Head(per_instance)[metric].available
         THEN <<Head(per_instance)[metric]>> \o AvailableOf(Tail(per_instance), metric)
         ELSE AvailableOf(Tail(per_instance), metric)

\* C6: each aggregate of a group run is the aggregate of the per-instance
\* summaries that are available, an instance without data changing none of its
\* values; when no instance has data for the metric the aggregate is the
\* sentinel.
C6_NoDataPropagation ==
    (HasReturned /\ instance_ids # << >>) =>
        \A metric \in {"cpu", "memory"} :
            LET available == AvailableOf(ret.value.per_instance, metric)
            IN  /\ \E up \in BOOLEAN :
                       Returned(ret.value[metric]) = aggregate_values(available, cfg, up)
                /\ available = << >> =>
                       ret.value[metric] = empty_metrics /\ ~ret.value[metric].available

\* an instance with cpu data only beside one with both: the memory aggregate
\* rests on one summary, the cpu aggregate on two
C6_Witness ==
    /\ HasReturned
    /\ Len(instance_ids) = 2
    /\ ret.value.per_instance[1].cpu.available
    /\ ~ret.value.per_instance[1].memory.available
    /\ ret.value.per_instance[2].cpu.available
    /\ ret.value.per_instance[2].memory.available
    /\ ret.value.cpu.datapoints = 2
    /\ ret.value.memory.datapoints = 1

\* C7: every summary of a non-empty base series has
\* min <= p75 <= p90 <= p95 <= p99 <= max.
C7_PercentileOrdering ==
    (HasReturned /\ ret.value.available) =>
        LET m == ret.value
        IN  /\ Val(m.min) <= Val(m.p75)
            /\ Val(m.p75) <= Val(m.p90)
            /\ Val(m.p90) <= Val(m.p95)
            /\ Val(m.p95) <= Val(m.p99)
            /\ Val(m.p99) <= Val(m.max)

\* C8: a group run returns instance_count = number of ids, one per_instance
\* entry per id in input order, metrics_available iff cpu or memory counts a
\* datapoint, instances_with_metrics = number of entries with
\* metrics_available; with no ids both counts are 0, per_instance is empty and
\* both summaries are the sentinel.
C8_GroupBookkeeping ==
    HasReturned =>
        LET r == ret.value
        IN  /\ r.instance_count = Len(instance_ids)
            /\ Len(r.per_instance) = Len(instance_ids)
            /\ \A k \in DOMAIN r.per_instance :
                  /\ r.per_instance[k].instance_id = instance_ids[k]
                  /\ r.per_instance[k].metrics_available <=>
                        (\/ r.per_instance[k].cpu.datapoints > 0
                         \/ r.per_instance[k].memory.datapoints > 0)
            /\ r.instances_with_metrics =
                   Cardinality({k \in DOMAIN r.per_instance :
                                    r.per_instance[k].metrics_available})
            /\ instance_ids = << >> =>
                  /\ r.instance_count = 0
                  /\ r.instances_with_metrics = 0
                  /\ r.per_instance = << >>
                  /\ r.cpu = empty_metrics
                  /\ r.memory = empty_metrics

\* two instances, the first with memory data only, the second with none
C8_Witness ==
    /\ HasReturned
    /\ ret.value.instance_count = 2
    /\ ret.value.instances_with_metrics = 1
    /\ ret.value.per_instance[1].metrics_available
    /\ ~ret.value.per_instance[1].cpu.available
    /\ ~ret.value.per_instance[2].metrics_available

\* the number of base-series values at or above a threshold
SamplesAtOrAbove(threshold) ==
    Cardinality({i \in DOMAIN datapoints :
                    /\ ~IsNone(datapoints[i].Average)
                    /\ Val(datapoints[i].Average) >= threshold})

\* C9: for every configured threshold, duration_above[threshold] is (number of
\* base-series values >= threshold) x (period_seconds / 60) minutes, a value
\* equal to the threshold counted.
C9_DurationAbove ==
    (HasReturned /\ ret.value.available) =>
        /\ DOMAIN ret.value.duration_above = Val(cfg.UTILIZATION_THRESHOLDS)
        /\ \A t \in Val(cfg.UTILIZATION_THRESHOLDS) :
              ret.value.duration_above[t] * 60 =
                  SamplesAtOrAbove(t) * CLOUDWATCH_PERIOD_SECONDS * 10

\* a series whose only value at or above 90 is 90 itself: 5 minutes above 90
C9_Witness ==
    /\ HasReturned
    /\ ret.value.available
    /\ Len(datapoints) = 3
    /\ \A i \in DOMAIN datapoints :
          ~IsNone(datapoints[i].Average) /\ Val(datapoints[i].Average) <= 90
    /\ SamplesAtOrAbove(90) = 1
    /\ ret.value.duration_above[90] = 50

\* the per-instance averages handed to _aggregate_values
InputAverages ==
    {Val(instance_metrics[i].average) :
        i \in {j \in DOMAIN instance_metrics : ~IsNone(instance_metrics[j].average)}}

InputAverageSum ==
    SumSeq([i \in DOMAIN instance_metrics |->
               IF IsNone(instance_metrics[i].average) THEN 0
               ELSE Val(instance_metrics[i].average)])

InputAverageCount ==
    Cardinality({j \in DOMAIN instance_metrics : ~IsNone(instance_metrics[j].average)})

\* C10: the aggregate's max and min are the largest and smallest per-instance
\* average, its average is the mean of the per-instance averages (to the
\* nearest hundredth), and so min <= average <= max.
C10_AggregateExtremes ==
    (HasReturned /\ ret.value.available) =>
        LET m == ret.value
        IN  /\ Val(m.max) \in InputAverages
            /\ \A a \in InputAverages : a <= Val(m.max)
            /\ Val(m.min) \in InputAverages
            /\ \A a \in InputAverages : Val(m.min) <= a
            /\ 2 * (Val(m.average) * InputAverageCount - InputAverageSum)
                   <= InputAverageCount
            /\ 2 * (InputAverageSum - Val(m.average) * InputAverageCount)
                   <= InputAverageCount
            /\ Val(m.min) <= Val(m.average)
            /\ Val(m.average) <= Val(m.max)

\* two inputs with different averages, one of them with a max above every average
C10_Witness ==
    /\ HasReturned
    /\ ret.value.available
    /\ Len(instance_metrics) = 2
    /\ Val(ret.value.min) < Val(ret.value.average)
    /\ Val(ret.value.average) < Val(ret.value.max)
    /\ \E i \in DOMAIN instance_metrics :
          /\ ~IsNone(instance_metrics[i].max)
          /\ Val(instance_metrics[i].max) > Val(ret.value.max)

\* the inputs of _aggregate_values that report an effective_peak
EffectivePeakReporters ==
    {i \in DOMAIN instance_metrics : ~IsNone(instance_metrics[i].effective_peak)}

InputEffectivePeakSum ==
    SumSeq([i \in DOMAIN instance_metrics |->
               IF i \in EffectivePeakReporters
               THEN Val(instance_metrics[i].effective_peak) ELSE 0])

\* C11: the aggregate's effective_peak is the mean (to the nearest hundredth)
\* of the effective_peak values of the inputs that report one, and is the
\* aggregated p95 only when no input reports one.
C11_AggregateEffectivePeak ==
    (HasReturned /\ ret.value.available) =>
        LET m == ret.value
            n == Cardinality(EffectivePeakReporters)
        IN  IF n > 0
            THEN /\ 2 * (Val(m.effective_peak) * n - InputEffectivePeakSum) <= n
                 /\ 2 * (InputEffectivePeakSum - Val(m.effective_peak) * n) <= n
            ELSE m.effective_peak = m.p95

\* one input reports an effective_peak, the other does not: the aggregate takes
\* the reported one and not the aggregated p95
C11_Witness ==
    /\ HasReturned
    /\ ret.value.available
    /\ Len(instance_metrics) = 2
    /\ Cardinality(EffectivePeakReporters) = 1
    /\ instance_metrics[2].available
    /\ IsNone(instance_metrics[2].effective_peak)
    /\ ret.value.effective_peak = instance_metrics[1].effective_peak
    /\ ret.value.effective_peak # ret.value.p95

\* the values of one statistic that the datapoints in hand carry
StatValues(stat) ==
    {Val(datapoints[i][stat]) : i \in {j \in DOMAIN datapoints : ~IsNone(datapoints[j][stat])}}

StatCount(stat) == Cardinality({j \in DOMAIN datapoints : ~IsNone(datapoints[j][stat])})

StatSum(stat) ==
    SumSeq([i \in DOMAIN datapoints |->
               IF IsNone(datapoints[i][stat]) THEN 0 ELSE Val(datapoints[i][stat])])

\* C12: a datapoint without the Average statistic is left out of the base
\* series, one without Maximum/Minimum out of those series, max/min falling
\* back to the base series when their series is empty; when no datapoint
\* carries the Average statistic the result is the sentinel, Maximum/Minimum
\* values or not.
C12_MalformedSamples ==
    /\ (pc = "done" /\ ~BaseSeriesNonEmpty) => ret = Returned(empty_metrics)
    /\ (pc = "done" /\ BaseSeriesNonEmpty /\ AnalysisConfigured) =>
          /\ ret.kind = "returned"
          /\ ret.value.available
          /\ ret.value.datapoints = StatCount("Average")
          /\ 2 * (Val(ret.value.average) * StatCount("Average") - StatSum("Average") * 100)
                 <= StatCount("Average")
          /\ 2 * (StatSum("Average") * 100 - Val(ret.value.average) * StatCount("Average"))
                 <= StatCount("Average")
          /\ Val(ret.value.max) =
                 100 * SetMax(IF StatValues("Maximum") # {} THEN StatValues("Maximum")
                                                          ELSE StatValues("Average"))
          /\ Val(ret.value.min) =
                 100 * SetMin(IF StatValues("Minimum") # {} THEN StatValues("Minimum")
                                                          ELSE StatValues("Average"))

\* datapoints that carry Maximum and Minimum but no Average: the sentinel
C12_Witness ==
    /\ pc = "done"
    /\ Len(datapoints) = 2
    /\ ~BaseSeriesNonEmpty
    /\ StatValues("Maximum") # {}
    /\ StatValues("Minimum") # {}
    /\ ret = Returned(empty_metrics)

\* C13: every call ends by returning a summary, at worst an unavailable one;
\* no error reaches the caller, under the shipped configuration included.
C13_NothingFatal ==
    pc = "done" => ret.kind = "returned"

\* the instances whose summary of one metric carries an average
Contributors(per_instance, metric) ==
    {k \in DOMAIN per_instance : ~IsNone(per_instance[k][metric].average)}

\* C14: each aggregate's sample count is the number of per-instance summaries
\* of that metric that contribute an average; after a group run
\* cpu.sample_count <= instances_with_metrics <= instance_count,
\* memory.sample_count <= instances_with_metrics, and instances_with_metrics
\* is 0 iff both aggregates are unavailable.
C14_SampleCountChain ==
    HasReturned =>
        LET r == ret.value
        IN  /\ r.cpu.datapoints = Cardinality(Contributors(r.per_instance, "cpu"))
            /\ r.memory.datapoints = Cardinality(Contributors(r.per_instance, "memory"))
            /\ r.cpu.datapoints <= r.instances_with_metrics
            /\ r.memory.datapoints <= r.instances_with_metrics
            /\ r.instances_with_metrics <= r.instance_count
            /\ (r.instances_with_metrics = 0) <=>
                   (~r.cpu.available /\ ~r.memory.available)

\* one instance with cpu data only, one with memory data only: each aggregate
\* counts one summary, of several raw samples, and two instances have metrics
C14_Witness ==
    /\ HasReturned
    /\ ret.value.instance_count = 2
    /\ ret.value.instances_with_metrics = 2
    /\ ret.value.cpu.datapoints = 1
    /\ ret.value.memory.datapoints = 1
    /\ ret.value.per_instance[1].cpu.datapoints > 1
    /\ ret.value.per_instance[2].memory.datapoints > 1


\* the name has the shape STRESS-<digits>-{S,L,XL}, a final line feed allowed
\* (the pattern's $ accepts one)
StressNames ==
    { <<"STRESS-">> \o d \o <<"-">> \o size \o nl :
        d \in UNION { [1..n -> Digits] : n \in 1..MaxNameLen },
        size \in {<<"S">>, <<"L">>, <<"X", "L">>},
        nl \in {<< >>, <<"\n">>} }

\* C15: a cluster whose name matches STRESS-<digits>-{S,L,XL} is TRANSIENT
\* whatever its runtime; any other cluster is LONG_RUNNING exactly when its
\* runtime is strictly above LONG_RUNNING_THRESHOLD_HOURS (a runtime equal to
\* the threshold is TRANSIENT); the result is one of the two values.
C15_Classification ==
    pc = "done" =>
        /\ ret.kind = "returned"
        /\ ret.value \in {"TRANSIENT", "LONG_RUNNING"}
        /\ cluster_name \in StressNames => ret.value = "TRANSIENT"
        /\ cluster_name \notin StressNames =>
              (ret.value = "LONG_RUNNING"
                 <=> runtime_hours > LONG_RUNNING_THRESHOLD_HOURS * 100)

\* a cluster with no transient name that has run exactly the threshold, and
\* is classified TRANSIENT
C15_Witness ==
    /\ pc = "done"
    /\ cluster_name = <<"STRESS-", "7", "-", "X">>
    /\ runtime_hours = LONG_RUNNING_THRESHOLD_HOURS * 100
    /\ ret = Returned("TRANSIENT")

\* what _process_metric_datapoints can hand to _aggregate_values
SummarizeOutputs ==
    {empty_metrics}
    \cup {process_metric_datapoints(s, c).value : s \in SampleSeries, c \in DefinedConfigs}

\* the effective peak is the percentile field its label names
PeakIsNamedPercentile(m) ==
    m.effective_peak = CASE m.effective_peak_percentile = "P95" -> m.p95
                         [] m.effective_peak_percentile = "P90" -> m.p90
                         [] m.effective_peak_percentile = "P75" -> m.p75
                         [] OTHER -> None

\* p75 <= effective_peak <= p95, to within one hundredth of a percent
PeakInBand(m) ==
    /\ ~IsNone(m.p75) /\ ~IsNone(m.p95) /\ ~IsNone(m.effective_peak)
    /\ Val(m.p75) - 1 <= Val(m.effective_peak)
    /\ Val(m.effective_peak) <= Val(m.p95) + 1

PeakLabelPaired(m) ==
    <<m.effective_peak_percentile, m.peak_type>>
        \in {<<"P95", "sustained">>, <<"P90", "moderate">>, <<"P75", "momentary">>}

\* C16: an available summary made by _process_metric_datapoints has its
\* effective_peak equal to the percentile its effective_peak_percentile names;
\* such a summary, and an available aggregate of such summaries, has
\* p75 <= effective_peak <= p95 (within rounding) and a (percentile, peak_type)
\* pair among (P95, sustained), (P90, moderate), (P75, momentary).
C16_PeakInPercentileBand ==
    /\ \A i \in DOMAIN instance_metrics :
          LET m == instance_metrics[i]
          IN  m \in SummarizeOutputs /\ m.available =>
                  PeakIsNamedPercentile(m) /\ PeakInBand(m) /\ PeakLabelPaired(m)
    /\ HasReturned /\ instance_ids = << >> /\ ret.value.available =>
          /\ datapoints # << >> => PeakIsNamedPercentile(ret.value)
          /\ datapoints # << >> \/ Range(instance_metrics) \subseteq SummarizeOutputs =>
                PeakInBand(ret.value) /\ PeakLabelPaired(ret.value)

\* a sustained and a momentary summary are aggregated: the aggregate is
\* labelled P75 and its effective peak lies strictly between its p75 and p95
C16_Witness ==
    /\ HasReturned
    /\ Len(instance_metrics) = 2
    /\ Range(instance_metrics) \subseteq SummarizeOutputs
    /\ instance_metrics[1].peak_type = "sustained"
    /\ instance_metrics[2].peak_type = "momentary"
    /\ ret.value.available
    /\ ret.value.effective_peak_percentile = "P75"
    /\ Val(ret.value.p75) < Val(ret.value.effective_peak)
    /\ Val(ret.value.effective_peak) < Val(ret.value.p95)

\* what _process_metric_datapoints returns under the configuration in force
SummarizeOutputsHere ==
    {empty_metrics}
    \cup (IF AnalysisConfigured
          THEN {process_metric_datapoints(s, cfg).value : s \in SampleSeries}
          ELSE {})

\* the inputs of _aggregate_values that carry a peak analysis
AnalysedInputs ==
    {i \in DOMAIN instance_metrics : instance_metrics[i].peak_type # "None"}

\* C17: when every input of _aggregate_values is an output of
\* _process_metric_datapoints (under the configuration in force), an aggregate
\* whose peak_type is 'sustained' has is_spike false: each analysed input is
\* 'sustained' with a spike gap not above SPIKE_DETECTION_GAP_PERCENT.
C17_SustainedAggregateHasNoSpike ==
    /\ HasReturned
    /\ instance_ids = << >>
    /\ datapoints = << >>
    /\ Range(instance_metrics) \subseteq SummarizeOutputsHere
    /\ ret.value.peak_type = "sustained"
    => /\ ret.value.is_spike = FALSE
       /\ \A i \in AnalysedInputs :
             /\ instance_metrics[i].peak_type = "sustained"
             /\ Val(instance_metrics[i].spike_gap)
                    <= Val(cfg.SPIKE_DETECTION_GAP_PERCENT) * 100

\* two sustained summaries, one with a positive spike gap, are aggregated: the
\* aggregate is sustained, has a positive spike gap and is no spike
C17_Witness ==
    /\ HasReturned
    /\ Len(instance_metrics) = 2
    /\ Range(instance_metrics) \subseteq SummarizeOutputsHere
    /\ AnalysedInputs = {1, 2}
    /\ Val(instance_metrics[1].spike_gap) > 0
    /\ ret.value.peak_type = "sustained"
    /\ Val(ret.value.spike_gap) > 0
    /\ ret.value.is_spike = FALSE

\* 80 is not a configured threshold and the sustained threshold is positive
No80Configured ==
    /\ AnalysisConfigured
    /\ 80 \notin Val(cfg.UTILIZATION_THRESHOLDS)
    /\ Val(cfg.SUSTAINED_PEAK_THRESHOLD_MINUTES) > 0

\* C18: when 80 is not among UTILIZATION_THRESHOLDS and the sustained
\* threshold is positive, no summary of _process_metric_datapoints has
\* peak_type 'moderate': every available one is 'sustained' or 'momentary'.
C18_NoModerateWithout80 ==
    HasReturned /\ instance_ids = << >> /\ instance_metrics = << >>
        /\ No80Configured /\ ret.value.available
    => ret.value.peak_type \in {"sustained", "momentary"}

\* samples at or above 80 last as long as the sustained threshold asks, yet
\* with no threshold 80 configured the summary is momentary
C18_Witness ==
    /\ HasReturned
    /\ No80Configured
    /\ SamplesAtOrAbove(80) * CLOUDWATCH_PERIOD_SECONDS
           >= Val(cfg.SUSTAINED_PEAK_THRESHOLD_MINUTES) * 60
    /\ ret.value.available
    /\ ret.value.peak_type = "momentary"
    /\ 80 \notin DOMAIN ret.value.duration_above
=============================================================================
